---- MODULE Spec2Model ----
(***************************************************************************)
(* The command-line parameter registry (CMD) and ParseCommandLine() of     *)
(* mlpack's CLI binding, as a state machine.                               *)
(*                                                                         *)
(* The registry is the process-wide map  name -> ParamData  plus the alias *)
(* table.  ParseCommandLine() builds a CLI::App from the registry, runs    *)
(* the parser on argv, reconciles the parser's options with the registry,  *)
(* handles the meta-options and checks the required options.               *)
(*                                                                         *)
(* A parameter value is kept in its textual form, as the sequence of the   *)
(* tokens that make it up: <<"3">> for the int 3, <<"1","2">> for a vector *)
(* of two elements, <<"true">> / <<"false">> for a flag.                   *)
(*                                                                         *)
(* Five specifications share the variables.  Spec is the command-line      *)
(* parser; SpecIO is a program that registers matrix parameters, parses    *)
(* and then reads, assigns and saves them; SpecAlias is MakeAlias() of     *)
(* methods/ann/make_alias.hpp over a heap of element buffers.              *)
(* SpecImage is ResizeImages() of core/data/image_resize_crop.hpp and      *)
(* SpecPredict the linear_regression_predict binding.                      *)
(***************************************************************************)
EXTENDS Integers, Sequences, FiniteSets, TLC

VARIABLES
  parameters,      \* CMD::Parameters(): canonical name -> ParamData
  aliases,         \* CMD alias table: short alias -> canonical name
  didParse,        \* CMD::GetSingleton().didParse
  ignoreInput,     \* Log::Info.ignoreInput
  argv,            \* argv[1..] of the last ParseCommandLine call
  parsed,          \* what app.parse(argc, argv) made of argv
  outcome,         \* how the last ParseCommandLine call ended
  fatalMsg,        \* the message written to Log::Fatal, "" if none
  output,          \* what the call printed: none, version, help, paramhelp
  getNameDashed,   \* build: Option::get_name() gives "--name", not "name"
  dupThrows,       \* build: app.parse rejects a repeated single-valued option
  files,           \* the files on disk: file name -> contents
  lastOp,          \* the last registry operation of the program and its result
  opCount,         \* registry operations of the program since ParseCommandLine
  mats,            \* the matrix and cube objects: name -> Mat / Cube
  heap,            \* the buffers the objects refer to: address -> buffer
  lastAlias,       \* the last MakeAlias call and what it found
  images,          \* the arma::Mat<eT> of images, one image per column
  imageInfo,       \* info, the data::ImageInfo of the images
  lastResize,      \* the last ResizeImages call and how it ended
  lrParams,        \* util::Params of linear_regression_predict
  lrEnd            \* how the run of the binding ended

\* the state of the command-line interface
cliVars == <<parameters, aliases, didParse, ignoreInput, argv, parsed, outcome,
             fatalMsg, output, getNameDashed, dupThrows>>

\* the files and the program's use of the registry
ioVars == <<files, lastOp, opCount>>

\* the matrices of MakeAlias
memVars == <<mats, heap, lastAlias>>

\* the images handed to ResizeImages
imgVars == <<images, imageInfo, lastResize>>

\* the parameters and the end of the linear_regression_predict binding
lrVars == <<lrParams, lrEnd>>

vars == <<cliVars, ioVars, memVars, imgVars, lrVars>>

----------------------------------------------------------------------------
(* Bounds *)

\* longest argv (without argv[0]) handed to ParseCommandLine
MaxArgs == 4
\* most program parameters registered on top of the default ones
MaxUserParams == 1
\* longest argv handed to ParseCommandLine by a program that goes on to use
\* its parameters
MaxIOArgs == 2
\* most uses of the registry by the program after ParseCommandLine returned
MaxOps == 2
\* most elements (rows x columns x slices) asked of MakeAlias
MaxElems == 2
\* largest width and height of an image, before and after ResizeImages
MaxSide == 2
\* most ResizeImages calls of a program
MaxResizes == 2
\* most features (rows) of the test matrix of linear_regression_predict
MaxFeatures == 2
\* most points (columns) of the test matrix of linear_regression_predict
MaxPoints == 2

----------------------------------------------------------------------------
(* ParamData and the parameters a program can register *)

\* input: an input parameter; loaded: the value was read from its file;
\* file: the file name kept with the value of a matrix or model parameter;
\* info: the DatasetInfo kept with the value of a dataset-with-info parameter
ParamData(name, tname, alias, required, value) ==
  [name |-> name, tname |-> tname, alias |-> alias, required |-> required,
   wasPassed |-> FALSE, value |-> value,
   input |-> TRUE, loaded |-> FALSE, file |-> "", info |-> <<>>]

\* std::map::operator[] on a missing key value-initializes the ParamData
EmptyParamData ==
  [name |-> "", tname |-> "", alias |-> "", required |-> FALSE,
   wasPassed |-> FALSE, value |-> <<>>,
   input |-> FALSE, loaded |-> FALSE, file |-> "", info |-> <<>>]

\* PARAM_STRING_IN("info", ..., "", ""), PARAM_FLAG("verbose", ..., "v"),
\* PARAM_FLAG("version", ..., ""): registered by every program
DefaultParams ==
  { ParamData("info", "string", "", FALSE, <<"">>),
    ParamData("verbose", "bool", "v", FALSE, <<"false">>),
    ParamData("version", "bool", "", FALSE, <<"false">>) }

\* the four options AddRequiredCMDOptions() registers in the test suite
RequiredCMDOptions ==
  { ParamData("help", "bool", "h", FALSE, <<"false">>),
    ParamData("info", "string", "", FALSE, <<"">>),
    ParamData("verbose", "bool", "v", FALSE, <<"false">>),
    ParamData("version", "bool", "V", FALSE, <<"false">>) }

\* the parameters the tests register: PARAM_FLAG("test", "test", "t"),
\* PARAM_INT_IN("int", ..., "i", 0), PARAM_VECTOR_IN(size_t, "test2_vec",
\* ..., "T"), PARAM_DOUBLE_IN_REQ("double", ..., "d")
UserParams ==
  { ParamData("test", "bool", "t", FALSE, <<"false">>),
    ParamData("int", "int", "i", FALSE, <<"0">>),
    ParamData("test2_vec", "vector", "T", FALSE, <<>>),
    ParamData("double", "double", "d", TRUE, <<"0.0">>) }

UserNames == { p.name : p \in UserParams }

\* the type tags of the parameters kept in a file: the command line names
\* the file, the value is loaded or saved later
FileTypes == {"matrix", "tuple"}

\* a matrix-like parameter: no value and no file name until it is set
FileParam(name, tname, alias, input) ==
  [ParamData(name, tname, alias, FALSE, <<>>) EXCEPT !.input = input]

\* the parameters of the tests that load and save: PARAM_MATRIX_IN("matrix",
\* ..., "m"), PARAM_MATRIX_OUT("matrix", ..., "m"),
\* PARAM_MATRIX_AND_INFO_IN("tuple", ..., "t"), PARAM_DOUBLE_IN("double",
\* ..., "d", 0.0), PARAM_VECTOR_IN(int, "test_vec", ..., "t")
IOParams ==
  { FileParam("matrix", "matrix", "m", TRUE),
    FileParam("matrix", "matrix", "m", FALSE),
    FileParam("tuple", "tuple", "t", TRUE),
    ParamData("double", "double", "d", FALSE, <<"0.0">>),
    ParamData("test_vec", "vector", "t", FALSE, <<>>) }

\* the names of the options every program has
MetaNames == {"help", "info", "verbose", "version"}

\* every ParamData a registration can enter
Catalogue == DefaultParams \cup RequiredCMDOptions \cup UserParams \cup IOParams

\* the operations the dispatch table holds for a type tag: the constructor
\* of a program option enters the four operations of its type; no other tag
\* has an entry
RequiredOps == {"AddToPO", "MapParameterName", "SetParam", "GetParam"}

TypeTags == {"bool", "int", "string", "double", "vector", "matrix", "tuple"}

functionMap(tname) == IF tname \in TypeTags THEN RequiredOps ELSE {}

\* the registry holding exactly the parameters of the set ps
RegistryOf(ps) ==
  [n \in { p.name : p \in ps } |-> CHOOSE p \in ps : p.name = n]

AliasesOf(ps) ==
  [a \in { p.alias : p \in { q \in ps : q.alias # "" } } |->
     (CHOOSE p \in ps : p.alias = a).name]

----------------------------------------------------------------------------
(* The registry: Register, HasParam, GetParam, ClearSettings *)

\* the canonical name a lookup string stands for
ResolveKey(als, key) == IF key \in DOMAIN als THEN als[key] ELSE key

\* HasParam / GetParam on a string that names no parameter is a fatal error
KnownParam(params, als, key) == ResolveKey(als, key) \in DOMAIN params

HasParam(params, als, key) == params[ResolveKey(als, key)].wasPassed

GetParam(params, als, key) == params[ResolveKey(als, key)].value

UnknownParamMsg(key) ==
  "Parameter '--" \o key \o "' does not exist in this program."

----------------------------------------------------------------------------
(* The argument parser: CLI::App *)

\* the name of the option on the command line: a matrix-like parameter is
\* given as the name of its file
MapParameterName(d) ==
  IF d.tname \in FileTypes THEN d.name \o "_file" ELSE d.name

\* the option definition AddToPO gives the parser for a parameter
AddToPO(d) ==
  [lname |-> MapParameterName(d), sname |-> d.alias,
   kind |-> IF d.tname = "bool" THEN "flag"
            ELSE IF d.tname = "vector" THEN "vector" ELSE "single",
   own |-> FALSE]

\* CLI::App app: a fresh App has its own help flag, -h,--help
HelpOption == [lname |-> "help", sname |-> "h", kind |-> "flag", own |-> TRUE]

\* the App after the AddToPO loop: long name -> option; a registered "help"
\* parameter takes the place of the parser's own help flag
AppOptions(params) ==
  LET regd == DOMAIN params
      lnames == { MapParameterName(params[n]) : n \in regd } \cup {"help"}
  IN [l \in lnames |->
        IF \E n \in regd : MapParameterName(params[n]) = l
        THEN AddToPO(params[CHOOSE n \in regd :
                              MapParameterName(params[n]) = l])
        ELSE HelpOption]

LongToken(l) == "--" \o l
ShortToken(s) == "-" \o s

\* the values that appear on the command lines
ValueTokens == {"1", "2"}

OptionMatches(o, t) ==
  \/ t = LongToken(o.lname)
  \/ o.sname # "" /\ t = ShortToken(o.sname)

\* how many value tokens follow position i of args
RECURSIVE ValuesAfter(_, _)
ValuesAfter(args, i) ==
  IF i + 1 > Len(args) \/ args[i + 1] \notin ValueTokens THEN 0
  ELSE 1 + ValuesAfter(args, i + 1)

\* app.parse from token i on; acc is the parse so far.  err is the
\* CLI::ParseError thrown, "" if none.
RECURSIVE ParseFrom(_, _, _, _, _)
ParseFrom(opts, dup, args, i, acc) ==
  IF i > Len(args) THEN acc
  ELSE
    LET t == args[i]
        m == { l \in DOMAIN opts : OptionMatches(opts[l], t) }
    IN IF t \in ValueTokens \/ m = {}
       THEN [acc EXCEPT !.err = "ExtrasError"]
       ELSE
         LET l == CHOOSE x \in m : TRUE
             o == opts[l]
             n == ValuesAfter(args, i)
             taken == [k \in 1..n |-> args[i + k]]
         IN IF o.own THEN [acc EXCEPT !.err = "CallForHelp"]
            ELSE IF o.kind = "flag"
            THEN ParseFrom(opts, dup, args, i + 1,
                           [acc EXCEPT !.count[l] = @ + 1])
            ELSE IF n = 0 THEN [acc EXCEPT !.err = "ArgumentMismatch"]
            ELSE IF o.kind = "single"
            THEN IF dup /\ acc.count[l] > 0
                 THEN [acc EXCEPT !.err = "ArgumentMismatch"]
                 ELSE ParseFrom(opts, dup, args, i + 2,
                        [acc EXCEPT !.count[l] = @ + 1,
                                    !.vals[l] = <<args[i + 1]>>])
            ELSE ParseFrom(opts, dup, args, i + 1 + n,
                        [acc EXCEPT !.count[l] = @ + 1,
                                    !.vals[l] = @ \o taken])

\* no call of app.parse yet
NotParsed == [err |-> "", count |-> <<>>, vals |-> <<>>]

Parse(opts, dup, args) ==
  ParseFrom(opts, dup, args, 1,
            [err |-> "", count |-> [l \in DOMAIN opts |-> 0],
             vals |-> [l \in DOMAIN opts |-> <<>>]])

\* option->get_name()
get_name(o, dashed) == IF dashed THEN LongToken(o.lname) ELSE o.lname

\* app.count(name)
AppCount(res, name) == IF name \in DOMAIN res.count THEN res.count[name] ELSE 0

----------------------------------------------------------------------------
(* ParseCommandLine *)

\* boostNameMap[boostName] = d.name, for every registered parameter
BoostNameMap(params) ==
  [b \in { MapParameterName(params[n]) : n \in DOMAIN params } |->
     CHOOSE n \in DOMAIN params : MapParameterName(params[n]) = b]

\* boostNameMap after the loop over app.get_options(): operator[] enters
\* every name looked up that the map does not hold, with the empty string
LookedUp(map, app, dashed) ==
  [b \in DOMAIN map \cup { get_name(app[l], dashed) : l \in DOMAIN app } |->
     IF b \in DOMAIN map THEN map[b] ELSE ""]

\* the loop over app.get_options(): every option of the App, supplied or
\* not, is looked up in boostNameMap (operator[] gives "" for a missing
\* key) and parameters[identifier] (operator[] inserts a missing entry) is
\* marked as passed.  SetParam is not called.
MarkPassed(params, app, dashed) ==
  LET boostNameMap == BoostNameMap(params)
      identifiers ==
        { IF get_name(app[l], dashed) \in DOMAIN boostNameMap
          THEN boostNameMap[get_name(app[l], dashed)] ELSE "" :
          l \in DOMAIN app }
  IN [n \in DOMAIN params \cup identifiers |->
        IF n \in identifiers
        THEN [(IF n \in DOMAIN params THEN params[n] ELSE EmptyParamData)
                EXCEPT !.wasPassed = TRUE]
        ELSE params[n]]

\* the required parameters the parser did not see
MissingRequired(params, res) ==
  { n \in DOMAIN params :
      /\ params[n].required
      /\ AppCount(res, MapParameterName(params[n])) = 0 }

RequiredMsg(boostName) == "Required option --" \o boostName \o " is undefined."

ParseErrorMsg == "Caught exception from parsing command line"

Ended(o, msg, out, ign) ==
  [outcome |-> o, fatalMsg |-> msg, output |-> out, ignoreInput |-> ign]

\* the loop over the required options, after the meta-options
RequiredCheck(params, res, ign) ==
  LET missing == MissingRequired(params, res)
  IN IF missing # {}
     THEN Ended("fatal",
                RequiredMsg(MapParameterName(params[CHOOSE n \in missing : TRUE])),
                "none", ign)
     ELSE Ended("returned", "", "none", ign)

\* from the meta-options on: --version, --help, --info, --verbose, then the
\* required options.  params is the registry after the marking loop.
MetaOptions(params, als, res, ign) ==
  IF ~KnownParam(params, als, "version")
  THEN Ended("fatal", UnknownParamMsg("version"), "none", ign)
  ELSE IF HasParam(params, als, "version")
  THEN Ended("exit0", "", "version", ign)
  ELSE IF ~KnownParam(params, als, "help")
  THEN Ended("fatal", UnknownParamMsg("help"), "none", ign)
  ELSE IF HasParam(params, als, "help")
  THEN Ended("exit0", "", "help", FALSE)
  ELSE IF ~KnownParam(params, als, "info")
  THEN Ended("fatal", UnknownParamMsg("info"), "none", ign)
  ELSE IF HasParam(params, als, "info")
  THEN IF GetParam(params, als, "info") # <<"">>
       THEN Ended("exit0", "", "paramhelp", FALSE)
       ELSE Ended("exit0", "", "help", FALSE)
  ELSE IF ~KnownParam(params, als, "verbose")
  THEN Ended("fatal", UnknownParamMsg("verbose"), "none", ign)
  ELSE RequiredCheck(params, res,
                     IF HasParam(params, als, "verbose") THEN FALSE ELSE ign)

\* tokens worth putting on a command line for the registry params: the long
\* names and aliases of its parameters, the parser's --help, an option
\* nobody registered, and the values
ArgTokens(params) ==
  { LongToken(MapParameterName(params[n])) : n \in DOMAIN params }
  \cup { ShortToken(params[n].alias) :
           n \in { x \in DOMAIN params : params[x].alias # "" } }
  \cup {"--help", "--unknown"} \cup ValueTokens

\* the command lines passed to ParseCommandLine: up to MaxArgs tokens, written
\* with one or two different tokens
ArgvSet(params) ==
  UNION { UNION { [1..n -> {s, t}] : n \in 0..MaxArgs } :
          s \in ArgTokens(params), t \in ArgTokens(params) }

\* the command lines of the programs that go on to use their parameters
IOArgvSet(params) ==
  UNION { UNION { [1..n -> {s, t}] : n \in 0..MaxIOArgs } :
          s \in ArgTokens(params), t \in ArgTokens(params) }

\* the parser runs once per registry: no command line after the call, and
\* none after a registration ended the program
Argvs == IF didParse \/ lastOp.err # "" THEN {} ELSE ArgvSet(parameters)

IOArgvs == IF didParse \/ lastOp.err # "" THEN {} ELSE IOArgvSet(parameters)

\* as AfterParse, without the catch: the parser's error is dropped
AfterParseUncaught(marked, als, res, ign) ==
  MetaOptions(marked, als, res, ign)

\* try { app.parse(argc, argv); } catch (const CLI::ParseError& pe)
\* { Log::Fatal << ... }, and the rest of the function when nothing is thrown
AfterParse(marked, als, res, ign) ==
  IF res.err # ""
  THEN Ended("fatal", ParseErrorMsg, "none", ign)
  ELSE MetaOptions(marked, als, res, ign)

ParseCommandLine(args) ==
  /\ ~didParse
  /\ didParse' = TRUE
  /\ argv' = args
  /\ parsed' = Parse(AppOptions(parameters), dupThrows, args)
  /\ parameters' = IF parsed'.err # "" THEN parameters
                    ELSE MarkPassed(parameters, AppOptions(parameters),
                                    getNameDashed)
  /\ LET end == AfterParse(parameters', aliases, parsed', ignoreInput)
     IN /\ outcome' = end.outcome
        /\ fatalMsg' = end.fatalMsg
        /\ output' = end.output
        /\ ignoreInput' = end.ignoreInput
  /\ UNCHANGED <<aliases, getNameDashed, dupThrows, ioVars, memVars,
                 imgVars, lrVars>>

----------------------------------------------------------------------------
(* The other operations *)

\* no operation on the registry yet
NoOp == [op |-> "none", key |-> "", err |-> "", value |-> <<>>]

Op(op, key, err, value) == [op |-> op, key |-> key, err |-> err, value |-> value]

NoOps ==
  /\ lastOp' = NoOp
  /\ opCount' = 0

\* the record of the last ParseCommandLine call, before any call
NoCall ==
  /\ argv' = <<>>
  /\ parsed' = NotParsed
  /\ outcome' = "none"
  /\ fatalMsg' = ""
  /\ output' = "none"

\* as CanRegister, a taken alias is let through
CanRegisterAnyAlias(params, als, p) ==
  p.name \notin DOMAIN params

\* a registration whose name or alias is taken fails and changes nothing
CanRegister(params, als, p) ==
  /\ p.name \notin DOMAIN params
  /\ p.alias # "" => p.alias \notin DOMAIN als

Add(params, p) ==
  [n \in DOMAIN params \cup {p.name} |-> IF n = p.name THEN p ELSE params[n]]

\* as AddAlias, the alias is not entered in the table
AddAliasForgotten(als, p) == als

AddAlias(als, p) ==
  IF p.alias = "" THEN als
  ELSE [a \in DOMAIN als \cup {p.alias} |->
          IF a = p.alias THEN p.name ELSE als[a]]

\* what Log::Fatal says when the name or the alias is taken
DuplicateMsg(p) ==
  "Parameter --" \o p.name \o " (-" \o p.alias \o ") is defined multiple times."

\* a registration: the fatal error of a taken name or alias ends the program
\* and leaves the registry as it was.  The bound limits the registrations
\* that can add an entry.
Register(p) ==
  /\ ~didParse
  /\ lastOp.err = ""
  /\ (Cardinality(DOMAIN parameters \ MetaNames) < MaxUserParams
        \/ p.name \in DOMAIN parameters \/ p.alias \in DOMAIN aliases)
  /\ IF CanRegister(parameters, aliases, p)
     THEN /\ parameters' = Add(parameters, p)
          /\ aliases' = AddAlias(aliases, p)
          /\ lastOp' = NoOp
     ELSE /\ UNCHANGED <<parameters, aliases>>
          /\ lastOp' = Op("Register", p.name, DuplicateMsg(p), <<>>)
  /\ UNCHANGED <<didParse, ignoreInput, argv, parsed, outcome, fatalMsg,
                 output, getNameDashed, dupThrows, files, opCount, memVars,
                 imgVars, lrVars>>

\* as ClearSettings, the alias table is left as it was
ClearSettingsKeepsAliases ==
  /\ outcome # "exit0"
  /\ parameters' = <<>>
  /\ didParse' = FALSE
  /\ NoCall
  /\ NoOps
  /\ UNCHANGED <<aliases, ignoreInput, getNameDashed, dupThrows, files, memVars,
                 imgVars, lrVars>>

\* CMD::ClearSettings(); a process that called exit() runs nothing more
ClearSettings ==
  /\ outcome # "exit0"
  /\ parameters' = <<>>
  /\ aliases' = <<>>
  /\ didParse' = FALSE
  /\ NoCall
  /\ NoOps
  /\ UNCHANGED <<ignoreInput, getNameDashed, dupThrows, files, memVars,
                 imgVars, lrVars>>

\* the test suite's AddRequiredCMDOptions(): ClearSettings(), then the four
\* default options are registered.  It opens a test case, after the fixture
\* CMDTestDestroyer has cleared what the test before left.
AddRequiredCMDOptions ==
  /\ ~didParse
  /\ parameters' = RegistryOf(RequiredCMDOptions)
  /\ aliases' = AliasesOf(RequiredCMDOptions)
  /\ didParse' = FALSE
  /\ NoCall
  /\ NoOps
  /\ UNCHANGED <<ignoreInput, getNameDashed, dupThrows, files, memVars,
                 imgVars, lrVars>>

----------------------------------------------------------------------------
(* The program's use of its parameters: GetParam, GetRawParam, EndProgram *)

\* the files on disk when the program starts: "1" exists, "2" does not
InitFiles == [f \in {"1"} |-> <<"2", "1">>]

\* the number a DatasetInfo maps a string to, as it is printed
CodeToken(k) == <<"0", "1", "2", "3">>[k]

\* the mapping holds the strings in the order of their numbers
CodeOf(info, s) == CHOOSE k \in 1..Len(info) : info[k] = s

\* the load of a categorical dataset: each string is replaced by its number
\* in the DatasetInfo; a string the mapping does not have is added to it
RECURSIVE MapStrings(_, _)
MapStrings(contents, info) ==
  IF contents = <<>> THEN [info |-> info, data |-> <<>>]
  ELSE LET str == Head(contents)
           inf == IF \E k \in 1..Len(info) : info[k] = str
                  THEN info ELSE Append(info, str)
           rest == MapStrings(Tail(contents), inf)
       IN [info |-> rest.info,
           data |-> <<CodeToken(CodeOf(inf, str))>> \o rest.data]

\* data::Load for the parameter d of a file with the given contents
Load(contents, d) ==
  IF d.tname = "tuple" THEN MapStrings(contents, d.info)
  ELSE [info |-> d.info, data |-> contents]

LoadMsg(file) == "Cannot open file '" \o file \o "'."

\* an input parameter kept in a file is loaded at its first GetParam
Deferred(d) == d.tname \in FileTypes /\ d.input /\ ~d.loaded

\* the GetParam operation of the type of d: the entry after the call, and
\* the fatal error of a load that fails
Materialize(d, fs) ==
  IF ~Deferred(d) THEN [err |-> "", d |-> d]
  ELSE IF d.file \notin DOMAIN fs THEN [err |-> LoadMsg(d.file), d |-> d]
  ELSE LET l == Load(fs[d.file], d)
       IN [err |-> "",
           d |-> [d EXCEPT !.value = l.data, !.info = l.info, !.loaded = TRUE]]

\* the DatasetInfo a program writes before the load
PreSeeded == <<"1", "2">>

\* the program body runs after ParseCommandLine returned, until EndProgram
\* or a fatal error
Alive ==
  /\ didParse
  /\ outcome = "returned"
  /\ lastOp.err = ""
  /\ lastOp.op # "EndProgram"
  /\ opCount < MaxOps

\* the strings a program looks its parameters up by: their names, and the
\* names of their options
Keys ==
  LET own == DOMAIN parameters \ (MetaNames \cup {""})
  IN own \cup { MapParameterName(parameters[n]) : n \in own }

\* CMD::GetParam<T>(key)
CallGetParam(key) ==
  /\ Alive
  /\ opCount' = opCount + 1
  /\ IF ~KnownParam(parameters, aliases, key)
     THEN /\ lastOp' = Op("GetParam", key, UnknownParamMsg(key), <<>>)
          /\ UNCHANGED parameters
     ELSE LET n == ResolveKey(aliases, key)
              got == Materialize(parameters[n], files)
          IN /\ parameters' = [parameters EXCEPT ![n] = got.d]
             /\ lastOp' = Op("GetParam", key, got.err,
                             IF got.err = "" THEN got.d.value ELSE <<>>)
  /\ UNCHANGED <<aliases, didParse, ignoreInput, argv, parsed, outcome,
                 fatalMsg, output, getNameDashed, dupThrows, files, memVars,
                 imgVars, lrVars>>

\* CMD::GetParam<T>(key) = v: the value is written through the reference
\* GetParam returns
AssignParam(key, v) ==
  /\ Alive
  /\ opCount' = opCount + 1
  /\ IF ~KnownParam(parameters, aliases, key)
     THEN /\ lastOp' = Op("Assign", key, UnknownParamMsg(key), <<>>)
          /\ UNCHANGED parameters
     ELSE LET n == ResolveKey(aliases, key)
              got == Materialize(parameters[n], files)
          IN IF got.err # ""
             THEN /\ lastOp' = Op("Assign", key, got.err, <<>>)
                  /\ UNCHANGED parameters
             ELSE /\ parameters' =
                       [parameters EXCEPT ![n] = [got.d EXCEPT !.value = <<v>>]]
                  /\ lastOp' = Op("Assign", key, "", <<v>>)
  /\ UNCHANGED <<aliases, didParse, ignoreInput, argv, parsed, outcome,
                 fatalMsg, output, getNameDashed, dupThrows, files, memVars,
                 imgVars, lrVars>>

\* CMD::GetRawParam<T>(key) = v: the value is written without a load; for a
\* dataset with info the program writes the DatasetInfo
SetRawParam(key, v) ==
  /\ Alive
  /\ opCount' = opCount + 1
  /\ IF ~KnownParam(parameters, aliases, key)
     THEN /\ lastOp' = Op("GetRawParam", key, UnknownParamMsg(key), <<>>)
          /\ UNCHANGED parameters
     ELSE LET n == ResolveKey(aliases, key)
          IN /\ parameters' =
                  IF parameters[n].tname = "tuple"
                  THEN [parameters EXCEPT ![n].info = PreSeeded]
                  ELSE [parameters EXCEPT ![n].value = <<v>>]
             /\ lastOp' = Op("GetRawParam", key, "", <<v>>)
  /\ UNCHANGED <<aliases, didParse, ignoreInput, argv, parsed, outcome,
                 fatalMsg, output, getNameDashed, dupThrows, files, memVars,
                 imgVars, lrVars>>

\* the output parameters EndProgram saves: kept in a file, with a file name
\* and a value
Saved(params) ==
  { n \in DOMAIN params :
      /\ params[n].tname \in FileTypes
      /\ ~params[n].input
      /\ params[n].file # ""
      /\ params[n].value # <<>> }

\* the files after every output parameter was saved
SaveAll(fs, params) ==
  LET out == Saved(params)
  IN [f \in DOMAIN fs \cup { params[n].file : n \in out } |->
        IF \E n \in out : params[n].file = f
        THEN params[CHOOSE n \in out : params[n].file = f].value
        ELSE fs[f]]

\* EndProgram(): the output parameters are written, the program is over
EndProgram ==
  /\ Alive
  /\ opCount' = opCount + 1
  /\ files' = SaveAll(files, parameters)
  /\ lastOp' = Op("EndProgram", "", "", <<>>)
  /\ UNCHANGED <<cliVars, memVars, imgVars, lrVars>>

----------------------------------------------------------------------------
(* MakeAlias *)

\* the objects of a program that makes aliases; each can be the m and the
\* oldMat of a call
MatNames == {"m", "oldMat"}

\* the addresses of the buffers on the heap
Addresses == 1..3

\* the values of an element
Elems == {0, 1}

\* an arma::Mat (cube is FALSE, n_slices is 1) or arma::Cube.  mem_state 0:
\* the object owns its memory; 1: auxiliary memory; 2: auxiliary memory of
\* fixed size (strict)
Dense(cube, mem, n_rows, n_cols, n_slices, mem_state) ==
  [cube |-> cube, mem |-> mem, n_rows |-> n_rows, n_cols |-> n_cols,
   n_slices |-> n_slices, mem_state |-> mem_state]

n_elem(x) == x.n_rows * x.n_cols * x.n_slices

Buffer(data, live) == [data |-> data, live |-> live]

\* m.~Mat(), m.~Cube(): an object that owns its memory releases it
Destroy(hp, x) ==
  IF x.mem_state = 0 THEN [hp EXCEPT ![x.mem].live = FALSE] ELSE hp

\* Mat(aux_mem, n_rows, n_cols, copy_aux_mem, strict) and the Cube
\* constructor with n_slices: with copy_aux_mem the object gets memory of
\* its own and the elements are copied, without it the object uses aux_mem
Construct(hp, cube, aux_mem, n_rows, n_cols, n_slices, copy_aux_mem, strict) ==
  IF copy_aux_mem
  THEN LET a == CHOOSE x \in Addresses : ~hp[x].live /\ x # aux_mem
           from == hp[aux_mem].data
           data == [i \in 1..(n_rows * n_cols * n_slices) |->
                      IF i <= Len(from) THEN from[i] ELSE 0]
       IN [obj |-> Dense(cube, a, n_rows, n_cols, n_slices, 0),
           heap |-> [hp EXCEPT ![a] = Buffer(data, TRUE)]]
  ELSE [obj |-> Dense(cube, aux_mem, n_rows, n_cols, n_slices,
                      IF strict THEN 2 ELSE 1),
        heap |-> hp]

\* the record of a MakeAlias call: its arguments, whether m owned the
\* memory oldMat refers to, whether that memory was allocated, and oldMat
\* before the call
AliasCall(m, oldMat, numRows, numCols, numSlices) ==
  [m |-> m, oldMat |-> oldMat, numRows |-> numRows, numCols |-> numCols,
   numSlices |-> numSlices,
   owned |-> (mats[m].mem_state = 0 /\ mats[m].mem = mats[oldMat].mem),
   live |-> heap[mats[oldMat].mem].live,
   before |-> mats[oldMat]]

\* no MakeAlias call yet
NoAlias ==
  [m |-> "", oldMat |-> "", numRows |-> 0, numCols |-> 0, numSlices |-> 0,
   owned |-> FALSE, live |-> FALSE, before |-> Dense(FALSE, 0, 0, 0, 0, 0)]

\* as MakeAlias, the memory is copied (copy_aux_mem is true)
MakeAliasCopy(m, oldMat, numRows, numCols) ==
  /\ ~mats[m].cube /\ ~mats[oldMat].cube
  /\ LET newMem == mats[oldMat].mem
         released == Destroy(heap, mats[m])
         built == Construct(released, FALSE, newMem, numRows, numCols, 1,
                            TRUE, TRUE)
     IN /\ mats' = [mats EXCEPT ![m] = built.obj]
        /\ heap' = built.heap
        /\ lastAlias' = AliasCall(m, oldMat, numRows, numCols, 1)
  /\ UNCHANGED <<cliVars, ioVars, imgVars, lrVars>>

\* MakeAlias(m, oldMat, numRows, numCols): newMem = oldMat.memptr();
\* m.~Mat(); new (&m) OutMatType(newMem, numRows, numCols, false, true)
MakeAlias(m, oldMat, numRows, numCols) ==
  /\ ~mats[m].cube /\ ~mats[oldMat].cube
  /\ LET newMem == mats[oldMat].mem
         released == Destroy(heap, mats[m])
         built == Construct(released, FALSE, newMem, numRows, numCols, 1,
                            FALSE, TRUE)
     IN /\ mats' = [mats EXCEPT ![m] = built.obj]
        /\ heap' = built.heap
        /\ lastAlias' = AliasCall(m, oldMat, numRows, numCols, 1)
  /\ UNCHANGED <<cliVars, ioVars, imgVars, lrVars>>

\* MakeAlias(m, oldMat, numRows, numCols, numSlices), the overload for cubes
MakeAliasCube(m, oldMat, numRows, numCols, numSlices) ==
  /\ mats[m].cube /\ mats[oldMat].cube
  /\ LET newMem == mats[oldMat].mem
         released == Destroy(heap, mats[m])
         built == Construct(released, TRUE, newMem, numRows, numCols,
                            numSlices, FALSE, TRUE)
     IN /\ mats' = [mats EXCEPT ![m] = built.obj]
        /\ heap' = built.heap
        /\ lastAlias' = AliasCall(m, oldMat, numRows, numCols, numSlices)
  /\ UNCHANGED <<cliVars, ioVars, imgVars, lrVars>>

\* a write outside allocated memory is undefined: nothing is stored, or any
\* element of the heap takes the value
UndefinedWrite(hp, v) ==
  {hp} \cup UNION { { [hp EXCEPT ![a].data[j] = v] :
                        j \in 1..Len(hp[a].data) } : a \in Addresses }

\* x[i] = v, for an index within the dimensions of x
WriteElem(x, i, v) ==
  /\ i < n_elem(mats[x])
  /\ LET a == mats[x].mem
     IN IF heap[a].live /\ i < Len(heap[a].data)
        THEN heap' = [heap EXCEPT ![a].data[i + 1] = v]
        ELSE heap' \in UndefinedWrite(heap, v)
  /\ UNCHANGED <<mats, lastAlias, cliVars, ioVars, imgVars, lrVars>>

\* x[i], for an index within the memory of x
ReadElem(x, i) == heap[mats[x].mem].data[i + 1]

----------------------------------------------------------------------------
(* ResizeImages *)

\* the element types ResizeImages is instantiated with: the two it treats
\* specially, and one of the others
ElemTypes == {"unsigned char", "float", "uword"}

\* info.Channels(): grey, grey with alpha, RGB, RGBA
ChannelCounts == 1..4

\* images.n_cols: no image, one image, several images
ImageCounts == 0..2

ImageInfo(width, height, channels) ==
  [width |-> width, height |-> height, channels |-> channels]

\* an arma::Mat<eT> of n_rows rows: cols[j][k] is the element of row k - 1
\* and column j - 1
ImageMat(eT, n_rows, cols) ==
  [eT |-> eT, n_rows |-> n_rows, n_cols |-> Len(cols), cols |-> cols]

\* a matrix that was never given a size
EmptyMat(eT) == [eT |-> eT, n_rows |-> 0, n_cols |-> 0, cols |-> <<>>]

\* the conversion of an element to the type eT: an unsigned char keeps the
\* low eight bits
conv_to(eT, v) == IF eT = "unsigned char" THEN v % 256 ELSE v

\* arma::conv_to<arma::Mat<eT>>::from(X), and the assignment of a matrix of
\* another element type
ConvMat(eT, X) ==
  [X EXCEPT !.eT = eT,
            !.cols = [j \in 1..Len(X.cols) |->
                        [k \in 1..Len(X.cols[j]) |-> conv_to(eT, X.cols[j][k])]]]

\* the values of stbir_pixel_layout and the channels of a pixel in each
StbLayouts ==
  {"STBIR_1CHANNEL", "STBIR_2CHANNEL", "STBIR_RGB", "STBIR_4CHANNEL"}

LayoutChannels(layout) ==
  CASE layout = "STBIR_1CHANNEL" -> 1
    [] layout = "STBIR_2CHANNEL" -> 2
    [] layout = "STBIR_RGB" -> 3
    [] layout = "STBIR_4CHANNEL" -> 4

\* what an element read outside the source holds, and an element of the
\* destination that was never written
Garbage == {0, 255}

\* stbir_resize_uint8_linear, stbir_resize_float_linear(src, width, height,
\* 0, dest, newWidth, newHeight, 0, layout), dest having size elements:
\* pixels are stored row by row with their channels together, and a pixel
\* of the output is the pixel of the input at the same relative place
Resample(src, width, height, size, newWidth, newHeight, layout, garbage) ==
  LET nch == LayoutChannels(layout)
  IN [k \in 1..size |->
        LET p == (k - 1) \div nch
            c == (k - 1) % nch
            y == p \div newWidth
            x == p % newWidth
            s == (((y * height) \div newHeight) * width
                    + (x * width) \div newWidth) * nch + c + 1
        IN IF p < newWidth * newHeight /\ s <= Len(src) THEN src[s]
           ELSE garbage]

\* as DimensionsMismatch, the number of elements is compared whatever the
\* number of columns
DimensionsMismatchElems(im, inf) ==
  im.n_rows * im.n_cols # inf.width * inf.height * inf.channels

\* the check of the dimensions: of the elements of a matrix of one column,
\* of the rows of any other matrix
DimensionsMismatch(im, inf) ==
  IF im.n_cols = 1
  THEN im.n_rows * im.n_cols # inf.width * inf.height * inf.channels
  ELSE im.n_rows # inf.width * inf.height * inf.channels

\* stbir_pixel_layout channels is assigned for one and for three channels
LayoutAssigned(channels) == channels = 1 \/ channels = 3

\* the values the variable channels can hold when it is read: the one
\* assigned, or any value when none was
PixelLayout(channels) ==
  IF channels = 1 THEN {"STBIR_1CHANNEL"}
  ELSE IF channels = 3 THEN {"STBIR_RGB"}
  ELSE StbLayouts

\* the record of a ResizeImages call: its arguments, the matrix and the info
\* it was given, how it ended, the calls of the resampler, the layout handed
\* to them, whether they went outside the buffers, and the number of the
\* call
ResizeCall(newWidth, newHeight, how, resampled, layout, unsafe) ==
  [called |-> TRUE, newWidth |-> newWidth, newHeight |-> newHeight,
   before |-> images, infoBefore |-> imageInfo, outcome |-> how,
   resampled |-> resampled, layout |-> layout,
   assigned |-> LayoutAssigned(imageInfo.channels), unsafe |-> unsafe,
   calls |-> lastResize.calls + 1]

\* no ResizeImages call yet
NoResize ==
  [called |-> FALSE, newWidth |-> 0, newHeight |-> 0,
   before |-> EmptyMat("unsigned char"), infoBefore |-> ImageInfo(0, 0, 0),
   outcome |-> "none", resampled |-> 0, layout |-> "", assigned |-> FALSE,
   unsafe |-> FALSE, calls |-> 0]

\* ResizeImages(images, info, newWidth, newHeight).  A resampler handed a
\* layout of other channels than the image has reads and writes outside the
\* buffers: the process crashes, or goes on with what it found there.  A
\* program is followed up to its first access outside a buffer.
ResizeImages(newWidth, newHeight) ==
  /\ lastResize.outcome \in {"none", "returned"}
  /\ ~lastResize.unsafe
  /\ lastResize.calls < MaxResizes
  /\ IF DimensionsMismatch(images, imageInfo)
     THEN /\ UNCHANGED <<images, imageInfo>>
          /\ lastResize' = ResizeCall(newWidth, newHeight, "fatal", 0, "",
                                          FALSE)
     ELSE \E channels \in PixelLayout(imageInfo.channels),
             garbage \in Garbage, crash \in BOOLEAN :
            LET newDimension == newWidth * newHeight * imageInfo.channels
                unsafe == /\ images.n_cols > 0
                          /\ LayoutChannels(channels) # imageInfo.channels
                src == IF images.eT \in {"unsigned char", "float"} THEN images
                       ELSE ConvMat("unsigned char", images)
                dest == [i \in 1..images.n_cols |->
                           Resample(src.cols[i], imageInfo.width,
                                    imageInfo.height, newDimension,
                                    newWidth, newHeight, channels, garbage)]
                resizedImages ==
                  IF images.eT = "float" THEN EmptyMat("unsigned char")
                  ELSE ImageMat("unsigned char", newDimension, dest)
            IN /\ crash => unsafe
               /\ IF crash
                  THEN /\ UNCHANGED <<images, imageInfo>>
                       /\ lastResize' = ResizeCall(newWidth, newHeight,
                                          "crashed", images.n_cols, channels,
                                          unsafe)
                  ELSE /\ images' = ConvMat(images.eT, resizedImages)
                       /\ imageInfo' = [imageInfo EXCEPT
                                          !.width = newWidth,
                                          !.height = newHeight]
                       /\ lastResize' = ResizeCall(newWidth, newHeight,
                                          "returned", images.n_cols, channels,
                                          unsafe)
  /\ UNCHANGED <<cliVars, ioVars, memVars, lrVars>>

----------------------------------------------------------------------------
(* linear_regression_predict *)

\* size_t arithmetic wraps around; the width is narrowed
SizeModulus == 65536

SizeMinus(a, b) == (a + SizeModulus - b) % SizeModulus

\* the parameters of the binding: the model (of which only the number of
\* elements of Parameters() matters), the test matrix and the output
PredictParams(passedModel, passedTest, n_elem_, n_rows, n_cols) ==
  [input_model |-> [wasPassed |-> passedModel, n_elem |-> n_elem_,
                    loaded |-> FALSE],
   test |-> [wasPassed |-> passedTest, n_rows |-> n_rows, n_cols |-> n_cols,
             loaded |-> FALSE],
   output_predictions |-> [set |-> FALSE, value |-> <<>>]]

\* RequireOnlyOnePassed(params, {name}, true): the parameter must be passed
RequireOnlyOnePassed(params, name) == params[name].wasPassed

\* lr->Predict(points, predictions): the response of every column of points
Predict(points) == [j \in 1..points.n_cols |-> <<"y", j>>]

\* the run of the binding: how it ended, what Log::Fatal was given, and the
\* matrix points
BindingEnd(how, msg, points) == [outcome |-> how, msg |-> msg, points |-> points]

NoPoints == [n_rows |-> 0, n_cols |-> 0]

\* the binding has not run
NoRun == BindingEnd("none", [kind |-> "none"], NoPoints)

\* as DimensionalityMismatch, the intercept is not taken off
DimensionalityMismatchNoIntercept(parameters_n_elem, n_rows) ==
  parameters_n_elem # n_rows

\* (lr->Parameters().n_elem - 1) != points.n_rows
DimensionalityMismatch(parameters_n_elem, n_rows) ==
  SizeMinus(parameters_n_elem, 1) # n_rows

\* BINDING_FUNCTION(params, timer)
BINDING_FUNCTION ==
  /\ lrEnd.outcome = "none"
  /\ IF ~RequireOnlyOnePassed(lrParams, "input_model")
     THEN /\ lrEnd' = BindingEnd("fatal", [kind |-> "required",
                                           name |-> "input_model"], NoPoints)
          /\ UNCHANGED lrParams
     ELSE IF ~RequireOnlyOnePassed(lrParams, "test")
     THEN /\ lrEnd' = BindingEnd("fatal", [kind |-> "required",
                                           name |-> "test"], NoPoints)
          /\ UNCHANGED lrParams
     ELSE
       LET lr == lrParams.input_model
           points == [n_rows |-> lrParams.test.n_rows,
                      n_cols |-> lrParams.test.n_cols]
           moved == [lrParams EXCEPT !.input_model.loaded = TRUE,
                                     !.test.loaded = TRUE,
                                     !.test.n_rows = 0, !.test.n_cols = 0]
       IN IF DimensionalityMismatch(lr.n_elem, points.n_rows)
          THEN /\ lrParams' = moved
               /\ lrEnd' = BindingEnd("fatal",
                             [kind |-> "dimensions",
                              dimensions |-> SizeMinus(lr.n_elem, 1),
                              n_rows |-> points.n_rows], points)
          ELSE /\ lrParams' =
                    [moved EXCEPT !.output_predictions =
                       [set |-> TRUE, value |-> Predict(points)]]
               /\ lrEnd' = BindingEnd("returned", [kind |-> "none"], points)
  /\ UNCHANGED <<cliVars, ioVars, memVars, imgVars>>

----------------------------------------------------------------------------
(* The specification *)

InitIO ==
  /\ files = InitFiles
  /\ lastOp = NoOp
  /\ opCount = 0

\* the registry of a program before main: the default parameters
InitCLI ==
  /\ parameters = RegistryOf(DefaultParams)
  /\ aliases = AliasesOf(DefaultParams)
  /\ didParse = FALSE
  /\ ignoreInput = TRUE
  /\ argv = <<>>
  /\ parsed = NotParsed
  /\ outcome = "none"
  /\ fatalMsg = ""
  /\ output = "none"

\* a program that resizes no image
InitNoImages ==
  /\ images = EmptyMat("unsigned char")
  /\ imageInfo = ImageInfo(0, 0, 0)
  /\ lastResize = NoResize

\* a program that is not the linear_regression_predict binding
InitNoBinding ==
  /\ lrParams = PredictParams(FALSE, FALSE, 0, 0, 0)
  /\ lrEnd = NoRun

\* a command-line program of the model has no matrix and calls no MakeAlias
Init ==
  /\ mats = <<>>
  /\ heap = <<>>
  /\ lastAlias = NoAlias
  /\ InitNoImages
  /\ InitNoBinding
  /\ InitIO
  /\ InitCLI
  /\ getNameDashed \in BOOLEAN
  /\ dupThrows \in BOOLEAN

Next ==
  \/ \E p \in UserParams : Register(p)
  \/ ClearSettings
  \/ AddRequiredCMDOptions
  \/ \E args \in Argvs : ParseCommandLine(args)

Spec == Init /\ [][Next]_vars

\* a program that registers a parameter of the loading and saving tests,
\* parses its command line and uses its parameters
NextIO ==
  \/ \E p \in IOParams : Register(p)
  \/ ClearSettings
  \/ AddRequiredCMDOptions
  \/ \E args \in IOArgvs : ParseCommandLine(args)
  \/ \E key \in Keys : CallGetParam(key)
  \/ \E key \in Keys, v \in ValueTokens : AssignParam(key, v)
  \/ \E key \in Keys, v \in ValueTokens : SetRawParam(key, v)
  \/ EndProgram

SpecIO == Init /\ [][NextIO]_vars

\* oldMat is a 2 x 1 object that owns its memory, m a 1 x 1 object that owns
\* its memory; both are matrices or both are cubes
InitAlias ==
  /\ InitCLI
  /\ InitIO
  /\ InitNoImages
  /\ InitNoBinding
  /\ getNameDashed = TRUE
  /\ dupThrows = TRUE
  /\ \E cube \in BOOLEAN :
       mats = [x \in MatNames |->
                 IF x = "oldMat" THEN Dense(cube, 1, 2, 1, 1, 0)
                 ELSE Dense(cube, 2, 1, 1, 1, 0)]
  /\ heap = [a \in Addresses |->
               IF a = 1 THEN Buffer(<<0, 0>>, TRUE)
               ELSE IF a = 2 THEN Buffer(<<0>>, TRUE)
               ELSE Buffer(<<>>, FALSE)]
  /\ lastAlias = NoAlias

\* the dimensions asked of MakeAlias: rows, columns and slices
Shapes ==
  { d \in (1..MaxElems) \X (1..MaxElems) \X (1..MaxElems) :
      d[1] * d[2] * d[3] <= MaxElems }

\* a program that makes aliases and writes elements
NextAlias ==
  \/ \E m \in MatNames, oldMat \in MatNames, d \in Shapes :
       d[3] = 1 /\ MakeAlias(m, oldMat, d[1], d[2])
  \/ \E m \in MatNames, oldMat \in MatNames, d \in Shapes :
       MakeAliasCube(m, oldMat, d[1], d[2], d[3])
  \/ \E x \in MatNames, i \in 0..(MaxElems - 1), v \in Elems :
       WriteElem(x, i, v)

SpecAlias == InitAlias /\ [][NextAlias]_vars

\* the first element of the first image is 254; an unsigned char holds the
\* low eight bits of the numbers that follow
Pixel(eT, n_rows, j, k) == conv_to(eT, 253 + (j - 1) * n_rows + k)

\* the program outside the images and the binding: nothing registered beyond
\* the default parameters, no matrix of MakeAlias
InitRest ==
  /\ InitCLI
  /\ InitIO
  /\ getNameDashed = TRUE
  /\ dupThrows = TRUE
  /\ mats = <<>>
  /\ heap = <<>>
  /\ lastAlias = NoAlias

\* a matrix of no, one or two images of any element type and an info of any
\* size; the rows of the matrix are those of the info or of one channel
InitImage ==
  /\ InitRest
  /\ InitNoBinding
  /\ \E eT \in ElemTypes, w \in 1..MaxSide, h \in 1..MaxSide,
        c \in ChannelCounts, n \in ImageCounts :
       \E r \in {w * h * c, w * h} :
         /\ images = ImageMat(eT, r, [j \in 1..n |->
                                       [k \in 1..r |-> Pixel(eT, r, j, k)]])
         /\ imageInfo = ImageInfo(w, h, c)
  /\ lastResize = NoResize

NextImage ==
  \E newWidth \in 1..MaxSide, newHeight \in 1..MaxSide :
    ResizeImages(newWidth, newHeight)

SpecImage == InitImage /\ [][NextImage]_vars

\* the binding is run on a model of up to MaxFeatures + 1 parameters and a
\* test matrix of up to MaxFeatures rows and MaxPoints columns, each passed
\* or not
InitPredict ==
  /\ InitRest
  /\ InitNoImages
  /\ \E passedModel \in BOOLEAN, passedTest \in BOOLEAN,
        n \in 0..(MaxFeatures + 1), r \in 0..MaxFeatures, c \in 0..MaxPoints :
       lrParams = PredictParams(passedModel, passedTest, n, r, c)
  /\ lrEnd = NoRun

NextPredict == BINDING_FUNCTION

SpecPredict == InitPredict /\ [][NextPredict]_vars

----------------------------------------------------------------------------
(* What the claims speak about *)

\* the parameters the program registered (operator[] may have added "")
Registered == DOMAIN parameters \ {""}

\* token t names parameter d, by its command-line name or its alias
Names(d, t) ==
  \/ t = LongToken(MapParameterName(d))
  \/ d.alias # "" /\ t = ShortToken(d.alias)

\* the positions of argv that name parameter n
Positions(n) == { i \in 1..Len(argv) : Names(parameters[n], argv[i]) }

Supplied(n) == Positions(n) # {}

IsFlag(n) == parameters[n].tname = "bool"
IsVector(n) == parameters[n].tname = "vector"
IsSingle(n) == ~IsFlag(n) /\ ~IsVector(n)

IsValue(t) == t \in ValueTokens

\* every token of argv that is not a value names parameter n, and each of
\* them is followed by a value
OnlyValuesFor(n) ==
  /\ Supplied(n)
  /\ \A i \in 1..Len(argv) : IsValue(argv[i]) \/ i \in Positions(n)
  /\ \A i \in Positions(n) : i < Len(argv) /\ IsValue(argv[i + 1])

\* the values of argv, in order of appearance
ValuesOf == SelectSeq(argv, IsValue)

----------------------------------------------------------------------------
(* C1 - C10 *)

\* C1: after ParseCommandLine returns, for every registered parameter p,
\* HasParam(p) is true if and only if p was supplied in argv, by its
\* command-line name or by its alias.
C1_HasParamIffSupplied ==
  outcome = "returned" =>
    \A n \in Registered : HasParam(parameters, aliases, n) <=> Supplied(n)

\* C2: after ParseCommandLine on an argv that supplies a single-valued
\* option once with value v, HasParam(name) is true and GetParam(name) is v.
C2_ParsedValueCopied ==
  outcome = "returned" =>
    \A n \in Registered :
      (IsSingle(n) /\ Cardinality(Positions(n)) = 1) =>
        /\ HasParam(parameters, aliases, n)
        /\ GetParam(parameters, aliases, n) =
             <<argv[(CHOOSE i \in Positions(n) : TRUE) + 1]>>

C4_DuplicateFlagTrue ==
  didParse =>
    \A n \in Registered :
      (IsFlag(n) /\ Cardinality(Positions(n)) >= 2
         /\ Cardinality(Positions(n)) = Len(argv)) =>
        /\ outcome # "fatal"
        /\ GetParam(parameters, aliases, n) = <<"true">>

\* C5: for a registered vector option, "--opt a b" and "--opt a --opt b"
\* both parse without a fatal error and leave the values, in order of
\* appearance, in the parameter.
C5_VectorInOrder ==
  didParse =>
    \A n \in Registered :
      (IsVector(n) /\ OnlyValuesFor(n)) =>
        /\ outcome # "fatal"
        /\ GetParam(parameters, aliases, n) = ValuesOf

\* no meta-option is on the command line
NoMetaOption ==
  \A i \in 1..Len(argv) :
    argv[i] \notin {"--version", "-V", "--help", "-h", "--info"}

\* C6: for a registered required parameter, when the parser accepts argv
\* and argv has no meta-option: if argv does not supply the parameter the
\* call ends in the fatal error that names it, and if argv supplies it the
\* call is not stopped.
C6_RequiredChecked ==
  (didParse /\ parsed.err = "" /\ NoMetaOption) =>
    \A n \in Registered :
      parameters[n].required =>
        IF Supplied(n)
        THEN outcome = "returned"
        ELSE /\ outcome = "fatal"
             /\ fatalMsg = RequiredMsg(MapParameterName(parameters[n]))

\* token t is an option that no registered parameter and no option of the
\* parser answers to
UnknownOption(t) ==
  /\ ~IsValue(t)
  /\ t \notin {"--help", "-h"}
  /\ \A n \in Registered : ~Names(parameters[n], t)

\* C7: an argv with an option that is not registered, or that the parser
\* rejects for another reason, ends ParseCommandLine in the fatal error
\* that reports the parser's exception; the call never returns normally.
C7_RejectedIsFatal ==
  (didParse /\ (parsed.err # "" \/ \E i \in 1..Len(argv) : UnknownOption(argv[i])))
    => (outcome = "fatal" /\ fatalMsg = ParseErrorMsg)

C7_Witness ==
  /\ outcome = "fatal"
  /\ \E i \in 1..Len(argv) : UnknownOption(argv[i])
  /\ "help" \in Registered

\* the command line is made of --version and --help only
OnlyVersionHelp ==
  /\ argv # <<>>
  /\ \A i \in 1..Len(argv) : argv[i] \in {"--version", "--help"}

\* C8: with "version" registered, a command line of --version and --help
\* ends ParseCommandLine with exit code 0, whatever the required options;
\* the version is printed when --version is there, the help otherwise.
C8_VersionHelpExit ==
  (didParse /\ "version" \in Registered /\ OnlyVersionHelp) =>
    /\ outcome = "exit0"
    /\ output = IF "--version" \in { argv[i] : i \in 1..Len(argv) }
                THEN "version" ELSE "help"

\* C9: when the parser accepts an argv with --info <name> and neither
\* --version nor --help, ParseCommandLine prints the help of that parameter
\* and ends with exit code 0.
C9_InfoExit ==
  (didParse /\ parsed.err = "" /\ "info" \in Registered /\ Supplied("info")
     /\ \A i \in 1..Len(argv) : argv[i] \notin {"--version", "-V", "--help", "-h"})
    => (outcome = "exit0" /\ output = "paramhelp")

\* C10: for every registered parameter n with a non-empty alias a, a lookup
\* by a finds a parameter, and HasParam(a) = HasParam(n) and
\* GetParam(a) = GetParam(n).
C10_AliasSameEntry ==
  \A n \in Registered :
    parameters[n].alias # "" =>
      /\ KnownParam(parameters, aliases, parameters[n].alias)
      /\ HasParam(parameters, aliases, parameters[n].alias)
           = HasParam(parameters, aliases, n)
      /\ GetParam(parameters, aliases, parameters[n].alias)
           = GetParam(parameters, aliases, n)

C10_Witness ==
  \E n \in Registered \cap UserNames :
    /\ parameters[n].alias # ""
    /\ HasParam(parameters, aliases, parameters[n].alias)
    /\ HasParam(parameters, aliases, n)

----------------------------------------------------------------------------
(* C11 - C19 *)

\* the parameter the last operation of the program looked up
LastParam == parameters[ResolveKey(aliases, lastOp.key)]

\* the file names the command line gives for parameter n
FileNamed(n) == { argv[i + 1] : i \in { j \in Positions(n) : j < Len(argv) } }

\* the value parameter n was registered with
DefaultOf(n) == (CHOOSE p \in Catalogue : p.name = n).value

\* C11: a matrix-like parameter registered as x is given on the command line
\* as --x_file: the lookup string x_file names no parameter (HasParam on it
\* is the unknown-parameter error), and after a ParseCommandLine that
\* returned on an argv with --x_file or the alias, HasParam(x) is true.
C11_FileOptionName ==
  \A n \in Registered :
    parameters[n].tname \in FileTypes =>
      /\ ~KnownParam(parameters, aliases, MapParameterName(parameters[n]))
      /\ (outcome = "returned" /\ Supplied(n))
           => HasParam(parameters, aliases, n)

\* C12: a GetParam on an input parameter kept in a file, whose file was
\* named on the command line and exists, loads the value (the first call)
\* or finds it loaded (a later call), and returns the stored value; a
\* GetParam that returns leaves the value it returned in the registry.
C12_GetParamIdempotent ==
  (lastOp.op = "GetParam" /\ KnownParam(parameters, aliases, lastOp.key)) =>
    /\ lastOp.err = "" => lastOp.value = LastParam.value
    /\ (LastParam.tname \in FileTypes /\ LastParam.input
          /\ FileNamed(LastParam.name) \cap DOMAIN files # {})
         => (lastOp.err = "" /\ LastParam.loaded)

\* C13: a GetParam on a dataset-with-info parameter whose DatasetInfo was
\* written through GetRawParam, and whose file was named on the command
\* line and exists, loads the file with that DatasetInfo and keeps it.
C13_RawParamHonoured ==
  (lastOp.op = "GetParam" /\ KnownParam(parameters, aliases, lastOp.key)
     /\ LastParam.tname = "tuple" /\ LastParam.info = PreSeeded) =>
    \A f \in FileNamed(LastParam.name) \cap DOMAIN files :
      /\ lastOp.err = ""
      /\ LastParam.loaded
      /\ LastParam.value = MapStrings(files[f], PreSeeded).data

\* C14: ClearSettings leaves nothing of the registry: before the next
\* ParseCommandLine every entry is as its registration made it (no passed
\* flag, no value, no entry of the run before), every alias belongs to an
\* entry of the registry, and the parser of the next ParseCommandLine has
\* the options of the parameters then registered and no other.
C14_ClearSettingsResets ==
  /\ ~didParse => \A n \in DOMAIN parameters : parameters[n] \in Catalogue
  /\ \A a \in DOMAIN aliases :
       aliases[a] \in DOMAIN parameters /\ parameters[aliases[a]].alias = a
  /\ didParse =>
       DOMAIN parsed.count =
         { MapParameterName(parameters[n]) : n \in Registered } \cup {"help"}

\* a registry that lost the default parameters and was parsed again
C14_Witness ==
  /\ didParse
  /\ "matrix" \in Registered
  /\ "info" \notin DOMAIN parameters
  /\ "m" \in DOMAIN aliases

\* the name of an entry is its key, and no alias is the alias of two entries
C15_Unique ==
  /\ \A n \in Registered : parameters[n].name = n
  /\ \A n1 \in DOMAIN parameters, n2 \in DOMAIN parameters :
       (n1 # n2 /\ parameters[n1].alias # "")
         => parameters[n1].alias # parameters[n2].alias

C17_DispatchComplete ==
  \A n \in DOMAIN parameters :
    RequiredOps \subseteq functionMap(parameters[n].tname)

\* C18: when EndProgram has run, every output parameter kept in a file,
\* whose file was named on the command line and whose value was assigned,
\* is in that file: the file exists and holds the value.
C18_OutputRoundTrip ==
  lastOp.op = "EndProgram" =>
    \A n \in Registered :
      (parameters[n].tname \in FileTypes /\ ~parameters[n].input
        /\ parameters[n].value # <<>>) =>
        \A f \in FileNamed(n) :
          f \in DOMAIN files /\ Load(files[f], parameters[n]).data = parameters[n].value

\* C19: after a ParseCommandLine that returned on an argv with --verbose
\* or -v, informational output is enabled.
C19_VerboseEnablesInfo ==
  ("verbose" \in Registered /\ outcome = "returned" /\ Supplied("verbose"))
    => ignoreInput = FALSE

----------------------------------------------------------------------------
(* C20 *)

\* what a MakeAlias call leaves: m has the dimensions asked for and does not
\* own its memory, the memory of m is the memory of oldMat (an element of one
\* is the element of the other), that memory was not released, and oldMat is
\* as it was before the call
AliasOfOldMat ==
  LET m == mats[lastAlias.m]
      oldMat == mats[lastAlias.oldMat]
  IN /\ m.n_rows = lastAlias.numRows
     /\ m.n_cols = lastAlias.numCols
     /\ m.n_slices = lastAlias.numSlices
     /\ m.mem_state # 0
     /\ m.mem = lastAlias.before.mem
     /\ oldMat = lastAlias.before
     /\ heap[m.mem].live = lastAlias.live
     /\ \A i \in 0..(MaxElems - 1) :
          (i < n_elem(m) /\ i < n_elem(oldMat) /\ i < Len(heap[m.mem].data))
            => ReadElem(lastAlias.m, i) = ReadElem(lastAlias.oldMat, i)

\* C20: after every MakeAlias(m, oldMat, ...), of matrices or of cubes, m
\* has the dimensions asked for and is an alias of the memory of oldMat,
\* and the dimensions of oldMat and its ownership of the memory are as
\* before.
C20_AliasAlways ==
  lastAlias.m # "" => AliasOfOldMat

\* C20, for the calls where m is not oldMat and m does not own the memory
\* oldMat refers to: after MakeAlias(m, oldMat, ...) m has the dimensions
\* asked for and is an alias of the memory of oldMat, and the dimensions of
\* oldMat and its ownership of the memory are as before.
C20_AliasUnlessOwned ==
  (lastAlias.m # "" /\ lastAlias.m # lastAlias.oldMat /\ ~lastAlias.owned)
    => AliasOfOldMat

\* an alias of allocated memory was made, of fewer elements than oldMat has,
\* and its first element was written
C20_Witness ==
  /\ lastAlias.m # ""
  /\ lastAlias.m # lastAlias.oldMat
  /\ ~lastAlias.owned
  /\ lastAlias.live
  /\ n_elem(mats[lastAlias.m]) < n_elem(mats[lastAlias.oldMat])
  /\ ReadElem(lastAlias.oldMat, 0) = 1

----------------------------------------------------------------------------
(* C24, C25, C27 *)

\* C24: a ParseCommandLine call leaves the set of names of the registry as
\* it was, whatever argv is and however the call ends; no entry is created
\* for an empty or unregistered name.
C24_RegistryNamesKept ==
  [][(~didParse /\ didParse') => DOMAIN parameters' = DOMAIN parameters]_vars

\* the registry without the entry operator[] may have added
RegisteredParams == [n \in Registered |-> parameters[n]]

\* boostNameMap when the last ParseCommandLine call ended: as the first loop
\* built it, and after the lookups of the second loop when the parser threw
\* nothing
boostNameMapAtEnd ==
  IF parsed.err # "" THEN BoostNameMap(RegisteredParams)
  ELSE LookedUp(BoostNameMap(RegisteredParams), AppOptions(RegisteredParams),
                getNameDashed)

\* C25: the map from option name to canonical name that ParseCommandLine
\* built is one-to-one, and its values are exactly the registered names: no
\* two option names stand for the same entry and every option name stands
\* for a registered parameter.
C25_NameMapBijection ==
  didParse =>
    LET map == boostNameMapAtEnd
    IN /\ \A b1 \in DOMAIN map : \A b2 \in DOMAIN map :
            map[b1] = map[b2] => b1 = b2
       /\ { map[b] : b \in DOMAIN map } = Registered

\* C27: after every MakeAlias(m, oldMat, ...), of matrices or of cubes, the
\* number of elements asked for is at most the number of elements of oldMat,
\* and every element of m lies within the buffer.
C27_AliasWithinOldMat ==
  lastAlias.m # "" =>
    /\ lastAlias.numRows * lastAlias.numCols * lastAlias.numSlices
         <= n_elem(lastAlias.before)
    /\ n_elem(mats[lastAlias.m]) <= Len(heap[mats[lastAlias.m].mem].data)

----------------------------------------------------------------------------
(* C21, C22, C26: ResizeImages *)

\* the layout of an image of the given number of channels
LayoutOf(channels) == CHOOSE l \in StbLayouts : LayoutChannels(l) = channels

\* the resized version of column i of the matrix the last call was given
ResizedColumn(i) ==
  Resample(lastResize.before.cols[i], lastResize.infoBefore.width,
           lastResize.infoBefore.height,
           lastResize.newWidth * lastResize.newHeight
             * lastResize.infoBefore.channels,
           lastResize.newWidth, lastResize.newHeight,
           LayoutOf(lastResize.infoBefore.channels), 0)

\* C21: after a ResizeImages(images, info, newWidth, newHeight) that
\* returned, whatever the element type, images has as many columns as
\* before and newWidth * newHeight * Channels rows, every column is the
\* resized version of the column it was, and info has the new width, the
\* new height and the channels it had.
C21_ImagesResized ==
  lastResize.outcome = "returned" =>
    /\ images.n_cols = lastResize.before.n_cols
    /\ images.n_rows = lastResize.newWidth * lastResize.newHeight
                         * lastResize.infoBefore.channels
    /\ Len(images.cols) = lastResize.before.n_cols
    /\ \A i \in 1..lastResize.before.n_cols :
         images.cols[i] = ResizedColumn(i)
    /\ imageInfo = ImageInfo(lastResize.newWidth, lastResize.newHeight,
                             lastResize.infoBefore.channels)

\* the matrix the last call was given does not match the info it was given:
\* one column and other elements than Width * Height * Channels, or several
\* columns and other rows than that
InputMismatch ==
  LET im == lastResize.before
      size == lastResize.infoBefore.width * lastResize.infoBefore.height
                * lastResize.infoBefore.channels
  IN \/ im.n_cols = 1 /\ im.n_rows * im.n_cols # size
     \/ im.n_cols > 1 /\ im.n_rows # size

C26_LayoutAssigned ==
  (lastResize.called /\ lastResize.resampled > 0) => lastResize.assigned

----------------------------------------------------------------------------
(* C23: linear_regression_predict *)

\* C23: when the binding has run: if input_model or test was not passed it
\* ended in a fatal error with nothing loaded; if the rows of the test
\* matrix are not the number of parameters of the model less one it ended
\* in the fatal error that names both numbers; in both cases
\* output_predictions is not set.  Otherwise it returned and
\* output_predictions holds one prediction for every column of the test
\* matrix.
C23_PredictionsWhenAgreeing ==
  lrEnd.outcome # "none" =>
    LET passed == /\ lrParams.input_model.wasPassed
                  /\ lrParams.test.wasPassed
        agree == lrEnd.points.n_rows = lrParams.input_model.n_elem - 1
    IN /\ ~passed =>
            /\ lrEnd.outcome = "fatal"
            /\ lrEnd.msg.kind = "required"
            /\ ~lrParams.input_model.loaded
            /\ ~lrParams.test.loaded
            /\ ~lrParams.output_predictions.set
       /\ (passed /\ ~agree) =>
            /\ lrEnd.outcome = "fatal"
            /\ lrEnd.msg.kind = "dimensions"
            /\ lrEnd.msg.dimensions = SizeMinus(lrParams.input_model.n_elem, 1)
            /\ lrEnd.msg.n_rows = lrEnd.points.n_rows
            /\ ~lrParams.output_predictions.set
       /\ (passed /\ agree) =>
            /\ lrEnd.outcome = "returned"
            /\ lrParams.output_predictions.set
            /\ Len(lrParams.output_predictions.value) = lrEnd.points.n_cols
            /\ \A j \in 1..lrEnd.points.n_cols :
                 lrParams.output_predictions.value[j] = <<"y", j>>

\* the binding returned the predictions of a test matrix of several points
C23_Witness ==
  /\ lrEnd.outcome = "returned"
  /\ lrEnd.points.n_rows > 0
  /\ lrEnd.points.n_cols > 1
  /\ Len(lrParams.output_predictions.value) = lrEnd.points.n_cols

====
